---- MODULE Spec2Model ----
(***************************************************************************)
(* State-machine model of the TikTokPrinter job queue and dispatch         *)
(* subsystem: PrinterInterface (queue, printer loop, start/stop),          *)
(* PrinterEngine (routing of a job to the escpos backend, the voice queue  *)
(* or the sound engine), VoiceEngine (speak queue, speak loop, synthesis   *)
(* threads) and SoundEngine (playback threads).                            *)
(*                                                                         *)
(* Strings are sequences of one-character strings, so that str.split and   *)
(* str.replace are computed.  Bitmaps are sequences of pixel rows.         *)
(* asyncio tasks are numbered by the start() call that created them; a     *)
(* task runs without preemption from one await to the next, so one loop    *)
(* iteration (wake-up from sleep until the next sleep) is one action.      *)
(***************************************************************************)
EXTENDS Integers, Sequences, FiniteSets, TLC

VARIABLES
    queue,        \* PrinterInterface._queue : sequence of [id, content]
    task,         \* PrinterInterface._task  : task number, 0 is None
    running,      \* PrinterInterface.__running
    printerPc,    \* position of every __printer_loop task
    vqueue,       \* VoiceEngine._queue : sequence of utterances
    vtask,        \* VoiceEngine._task : task number, 0 is None
    vrunning,     \* VoiceEngine.__running
    speakPc,      \* position of every __speak_loop task
    speakThread,  \* the local variable `thread` of every __speak_loop task
    synth,        \* every synthesis thread ever started: [text, status]
    playing,      \* running playback units per file path
    escpos,       \* formatting configuration kept by EscposEngine
    starts,       \* number of start() calls so far (task numbers handed out)
    nextId,       \* identity given to the next enqueued collection
    jobs,         \* number of jobs enqueued so far
    appendOnly,   \* TRUE while every enqueue so far used a negative index
    dispatched,   \* identities of the popped collections, in pop order
    lastOp,       \* the call that ended in the step just taken, and how
    lastRun       \* the dispatch made by the step just taken, and what it did

vars == <<queue, task, running, printerPc, vqueue, vtask, vrunning, speakPc,
          speakThread, synth, playing, escpos, starts, nextId, jobs,
          appendOnly, dispatched, lastOp, lastRun>>

(***************************************************************************)
(* Bounds                                                                  *)
(***************************************************************************)
MaxEnqueues == 3   \* calls of queue()
MaxJobs == 5       \* jobs in all the enqueued collections together
MaxStarts == 2     \* calls of start()
MaxCalls == 5      \* calls of queue() plus twice the calls of start()
MaxIndex == 2      \* largest index handed to queue()
MaxLiveCalls == 4  \* as MaxCalls, in the specifications with fairness

(***************************************************************************)
(* Strings                                                                 *)
(***************************************************************************)
NL == "\n"

RECURSIVE FirstNL(_, _)
\* position of the first line break of s at or after i, 0 if there is none
FirstNL(s, i) ==
    IF i > Len(s) THEN 0
    ELSE IF s[i] = NL THEN i ELSE FirstNL(s, i + 1)

\* a split that finds no separator
NoSplit(s) == <<s>>

RECURSIVE Split(_)
\* str.split("\n")
Split(s) ==
    LET k == FirstNL(s, 1) IN
    IF k = 0 THEN <<s>>
    ELSE <<SubSeq(s, 1, k - 1)>> \o Split(SubSeq(s, k + 1, Len(s)))

\* str.replace("\n", " ")
ReplaceNL(s) == [i \in 1..Len(s) |-> IF s[i] = NL THEN " " ELSE s[i]]

(***************************************************************************)
(* Job model (types/objects.py)                                            *)
(***************************************************************************)
PrinterText(content, bold) ==
    [content |-> content, bold |-> bold, type |-> "PrinterText"]

\* the field content of a PrinterImage is named bitmap here: TLC compares
\* records field by field, and a bitmap is not comparable with a string
PrinterImage(content, padding) ==
    [type |-> "PrinterImage", padding |-> padding, bitmap |-> content]

VoiceText(content) == [content |-> content, type |-> "VoiceText"]

SoundFile(file_path) == [type |-> "SoundFile", file_path |-> file_path]

\* an object that is none of the four CollectionItem classes
ForeignObject == [type |-> "object"]

\* a PIL image and a value that is not one (None)
Bitmap == [isImage |-> TRUE, pixels |-> <<<<1, 2>>, <<3, 4>>>>]
NoImage == [isImage |-> FALSE, pixels |-> <<>>]

\* ImageOps.mirror: left-right; ImageOps.flip: top-bottom
Reverse(s) == [i \in 1..Len(s) |-> s[Len(s) + 1 - i]]
\* a mirror that leaves the rows as they are
MirrorNone(img) == img
Mirror(img) == [img EXCEPT !.pixels = [r \in 1..Len(@) |-> Reverse(@[r])]]
Flip(img) == [img EXCEPT !.pixels = Reverse(@)]

\* the file system seen by os.path.exists
Paths == {"ding.mp3", "gone.mp3"}
ExistingPaths == {"ding.mp3"}
PathExists(p) == p \in ExistingPaths

\* the collections a producer hands to queue()
Collections ==
    { <<PrinterText(<<"a">>, FALSE)>>,
      <<PrinterImage(Bitmap, TRUE), ForeignObject, PrinterText(<<"b">>, FALSE)>>,
      <<PrinterImage(NoImage, TRUE), PrinterText(<<"b", NL, "c">>, TRUE),
        PrinterImage(Bitmap, FALSE)>>,
      <<SoundFile("gone.mp3"), PrinterText(<<"b">>, FALSE)>>,
      <<SoundFile("ding.mp3"), VoiceText(<<"x", NL, "y">>),
        SoundFile("ding.mp3")>>,
      <<VoiceText(<<"v">>), VoiceText(<<"z">>)>> }

Indices == (-1)..MaxIndex

\* the strings a producer hands to text()
TextContents == {<<"p", NL, "q">>}

(***************************************************************************)
(* Output backend.  A backend call is recorded as [op, arg, ok]; ok is     *)
(* FALSE for the call that raised.  The backend may raise in any call      *)
(* (hardware or driver failure): the dispatch of one collection is given   *)
(* a fault [job, op], meaning that the first `op` call made for job number *)
(* `job` raises; job 0 means that no call raises.                          *)
(***************************************************************************)
BackendOps == {"set", "text", "image"}
NoFault == [job |-> 0, op |-> "none"]

Call(op, arg) == [op |-> op, arg |-> arg, ok |-> TRUE]

RECURSIVE FirstOp(_, _, _)
\* position of the first call of operation op at or after i, 0 if none
FirstOp(calls, op, i) ==
    IF i > Len(calls) THEN 0
    ELSE IF calls[i].op = op THEN i ELSE FirstOp(calls, op, i + 1)

\* make the calls in order until the faulty one raises
Attempt(calls, faultOp) ==
    LET k == FirstOp(calls, faultOp, 1) IN
    IF k = 0 THEN [calls |-> calls, error |-> ""]
    ELSE [calls |-> [i \in 1..k |-> IF i = k THEN [calls[i] EXCEPT !.ok = FALSE]
                                            ELSE calls[i]],
          error |-> "BackendError"]

(***************************************************************************)
(* PrinterEngine (client/printer/engine.py)                                *)
(***************************************************************************)
NoOverride == "None"

\* a __set_formatting that ignores the override
SetFormattingStored(cfg, bold_override) == <<Call("set", cfg)>>

\* a __set_formatting whose bold override sticks for every later call
SetFormattingBold(cfg, bold_override) ==
    <<Call("set", [cfg EXCEPT !.text_type = "B"])>>

\* PrinterEngine.__set_formatting
SetFormatting(cfg, bold_override) ==
    LET text_type == IF bold_override # NoOverride THEN bold_override
                     ELSE cfg.text_type
    IN  <<Call("set", [cfg EXCEPT !.text_type = text_type])>>

\* PrinterEngine.text: the backend calls it makes when none raises
TextCalls(cfg, text) ==
    LET lines == Split(text.content) IN
    SetFormatting(cfg, IF text.bold THEN "B" ELSE NoOverride)
        \o [i \in 1..Len(lines) |-> Call("text", Append(lines[i], NL))]

\* PrinterEngine.image without the blank line after the image
ImageCallsNoSpacer(cfg, image) ==
    LET content == IF cfg.flip THEN Flip(Mirror(image.bitmap))
                   ELSE image.bitmap
        blank == TextCalls(cfg, PrinterText(<<>>, FALSE))
    IN  SetFormatting(cfg, NoOverride)
            \o (IF image.padding THEN blank ELSE <<>>)
            \o <<Call("image", content)>>
            \o (IF image.padding THEN blank ELSE <<>>)

\* PrinterEngine.image after the isinstance test: the calls when none raises
ImageCalls(cfg, image) ==
    LET content == IF cfg.flip THEN Flip(Mirror(image.bitmap))
                   ELSE image.bitmap
        blank == TextCalls(cfg, PrinterText(<<>>, FALSE))
    IN  SetFormatting(cfg, NoOverride)
            \o (IF image.padding THEN blank ELSE <<>>)
            \o <<Call("image", content)>>
            \o blank
            \o (IF image.padding THEN blank ELSE <<>>)

EngineText(cfg, text, faultOp) == Attempt(TextCalls(cfg, text), faultOp)

\* PrinterEngine.image without its isinstance test
EngineImageUnchecked(cfg, image, faultOp) ==
    Attempt(ImageCalls(cfg, image), faultOp)

EngineImage(cfg, image, faultOp) ==
    IF ~image.bitmap.isImage
    THEN [calls |-> <<>>, error |-> "InvalidImageObject"]
    ELSE Attempt(ImageCalls(cfg, image), faultOp)

\* PrinterEngine.voice: the utterance handed to VoiceEngine.speak
EngineVoice(voice) == ReplaceNL(voice.content)

\* a speak that puts the utterance in front of the waiting ones
SpeakFront(q, text) == <<text>> \o q

\* VoiceEngine.speak
Speak(q, text) == Append(q, text)

RECURSIVE SpeakAll(_, _)
\* the speak calls of one dispatch, in order
SpeakAll(q, texts) ==
    IF texts = <<>> THEN q
    ELSE SpeakAll(Speak(q, Head(texts)), Tail(texts))

\* SoundEngine.play without its os.path.exists test
SoundPlayUnchecked(file_path) ==
    [error |-> "", played |-> <<file_path>>]

\* SoundEngine.play: the playback units it creates, or the error it raises
SoundPlay(file_path) ==
    IF ~PathExists(file_path)
    THEN [error |-> "FileNotFoundError", played |-> <<>>]
    ELSE [error |-> "", played |-> <<file_path>>]

\* a sound that plays in the calling thread: no unit is left running
EngineSoundBlocking(sound) ==
    [error |-> SoundPlay(sound.file_path).error, played |-> <<>>]

\* PrinterEngine.sound
EngineSound(sound) == SoundPlay(sound.file_path)

(***************************************************************************)
(* PrinterInterface.__print_content                                        *)
(***************************************************************************)
\* one pass of the for loop body for `item`: what the routed engine call
\* does, the error it ends with ("" if none) and whether the loop body
\* catches that error itself
RunJob(cfg, item, faultOp) ==
    CASE item.type = "PrinterImage" ->
            LET r == EngineImage(cfg, item, faultOp) IN
            [calls |-> r.calls, error |-> r.error, played |-> <<>>,
             spoke |-> <<>>, caught |-> TRUE]
      [] item.type = "PrinterText" ->
            LET r == EngineText(cfg, item, faultOp) IN
            [calls |-> r.calls, error |-> r.error, played |-> <<>>,
             spoke |-> <<>>, caught |-> FALSE]
      [] item.type = "SoundFile" ->
            LET r == EngineSound(item) IN
            [calls |-> <<>>, error |-> r.error, played |-> r.played,
             spoke |-> <<>>, caught |-> FALSE]
      [] item.type = "VoiceText" ->
            [calls |-> <<>>, error |-> "", played |-> <<>>,
             spoke |-> <<EngineVoice(item)>>, caught |-> FALSE]
      [] OTHER ->
            [calls |-> <<>>, error |-> "InvalidPrinterObject", played |-> <<>>,
             spoke |-> <<>>, caught |-> FALSE]

\* the faults that can strike the dispatch of a collection: a call raises
\* only if it is made
OpsOf(calls) == {calls[k].op : k \in 1..Len(calls)}

FaultsOf(cfg, content) ==
    {NoFault} \cup
    UNION {UNION {{[job |-> j, op |-> op] : op \in ops \cap BackendOps} :
                     ops \in {OpsOf(RunJob(cfg, content[j], "none").calls)}} :
            j \in 1..Len(content)}

\* the result of a dispatch before any job has run
NoResult(content) ==
    [calls  |-> [i \in 1..Len(content) |-> <<>>],  \* backend calls per job
     error  |-> [i \in 1..Len(content) |-> ""],
     played |-> <<>>,      \* paths handed to a playback unit, in order
     spoke  |-> <<>>,      \* utterances handed to VoiceEngine.speak, in order
     status |-> [i \in 1..Len(content) |-> "notrun"],
     logged |-> <<>>,      \* errors written to the log, in order
     raised |-> ""]        \* the error that left the function, "" if none

RECURSIVE PrintFrom(_, _, _, _, _)
PrintFrom(cfg, content, i, fault, acc) ==
    IF i > Len(content) THEN acc
    ELSE
      LET r == RunJob(cfg, content[i], IF fault.job = i THEN fault.op ELSE "none")
          acc1 == [acc EXCEPT !.calls[i] = r.calls,
                              !.spoke = @ \o r.spoke,
                              !.played = @ \o r.played,
                              !.error[i] = r.error]
      IN  IF r.error = ""
          THEN PrintFrom(cfg, content, i + 1, fault,
                         [acc1 EXCEPT !.status[i] = "ok"])
          ELSE IF r.caught
          THEN PrintFrom(cfg, content, i + 1, fault,
                         [acc1 EXCEPT !.status[i] = "skipped",
                                      !.logged = Append(@, r.error)])
          ELSE [acc1 EXCEPT !.status[i] = "raised", !.raised = r.error]

\* a for loop over reversed(collection.content)
PrintContentReversed(cfg, content, fault) ==
    PrintFrom(cfg, Reverse(content), 1, fault, NoResult(content))

PrintContent(cfg, content, fault) ==
    PrintFrom(cfg, content, 1, fault, NoResult(content))

(***************************************************************************)
(* PrinterInterface: queue, printer loop, start, stop                      *)
(***************************************************************************)
\* an insert that ignores the index
ListInsertEnd(s, index, x) == Append(s, x)

\* an insert that takes only the positions of the list: a position past the
\* end inserts nothing
ListInsertInRange(s, index, x) ==
    IF index > Len(s) THEN s
    ELSE [k \in 1..(Len(s) + 1) |->
            IF k <= index THEN s[k] ELSE IF k = index + 1 THEN x ELSE s[k - 1]]

\* list.insert(index, x) for index >= 0: positions past the end are the end
ListInsert(s, index, x) ==
    LET where == IF index > Len(s) THEN Len(s) ELSE index IN
    [k \in 1..(Len(s) + 1) |->
        IF k <= where THEN s[k] ELSE IF k = where + 1 THEN x ELSE s[k - 1]]

\* PrinterInterface.queue: the new value of _queue
QueueInsert(q, collection, index) ==
    IF index < 0 THEN Append(q, collection)
    ELSE ListInsert(q, index, collection)

\* list.pop(): the last element instead of the first
PopLast(q) == [item |-> q[Len(q)], rest |-> SubSeq(q, 1, Len(q) - 1)]

\* q[0] without the removal
PopPeek(q) == [item |-> Head(q), rest |-> q]

\* list.pop(0)
Pop0(q) == [item |-> Head(q), rest |-> Tail(q)]

\* __printer_loop without the try/except around __print_content
PrinterLoopNoCatch(r) == r

\* the try/except around __print_content in __printer_loop
PrinterLoopCatch(r) ==
    IF r.raised = "" THEN r
    ELSE [r EXCEPT !.logged = Append(@, r.raised), !.raised = ""]

\* a cancel that is never delivered
CancelNone(pc, t) == pc

\* Task.cancel on a task that has not finished
Cancel(pc, t) ==
    [pc EXCEPT ![t] = IF @ \in {"new", "sleeping"} THEN "done" ELSE @]

Spawn(units, played) ==
    [p \in Paths |->
        units[p] + Cardinality({i \in 1..Len(played) : played[i] = p})]

NoRun ==
    [content |-> <<>>, id |-> 0, by |-> 0] @@ NoResult(<<>>)

Tasks == 1..MaxStarts

DefaultConfig ==
    [text_type |-> "normal", flip |-> FALSE, align |-> "left", font |-> "a",
     width |-> 1, height |-> 1, density |-> 9, invert |-> FALSE,
     smooth |-> FALSE]

\* lastOp and lastRun observe one step: a step in which no API call is made
\* and no synthesis ends leaves NoOp, a step that dispatches no collection
\* leaves NoRun; past tells that a queue() was handed an index past the end
\* of the list
Op(op, raised) == [op |-> op, raised |-> raised, past |-> FALSE]
NoOp == Op("none", FALSE)

Init ==
    /\ queue = <<>>
    /\ task = 0
    /\ running = FALSE
    /\ printerPc = [t \in Tasks |-> "none"]
    /\ vqueue = <<>>
    /\ vtask = 0
    /\ vrunning = FALSE
    /\ speakPc = [t \in Tasks |-> "none"]
    /\ speakThread = [t \in Tasks |-> 0]
    /\ synth = <<>>
    /\ playing = [p \in Paths |-> 0]
    /\ escpos \in {[DefaultConfig EXCEPT !.flip = f] : f \in BOOLEAN}
    /\ starts = 0
    /\ nextId = 1
    /\ jobs = 0
    /\ appendOnly = TRUE
    /\ dispatched = <<>>
    /\ lastOp = NoOp
    /\ lastRun = NoRun

\* PrinterInterface.queue(collection, index)
Queue(content, index) ==
    /\ nextId <= MaxEnqueues
    /\ nextId + 2 * starts <= MaxCalls
    /\ jobs + Len(content) <= MaxJobs
    /\ jobs' = jobs + Len(content)
    /\ queue' = QueueInsert(queue, [content |-> content, id |-> nextId], index)
    /\ nextId' = nextId + 1
    /\ appendOnly' = (appendOnly /\ index < 0)
    /\ lastOp' = [Op("queue", FALSE) EXCEPT !.past = index > Len(queue)]
    /\ lastRun' = NoRun
    /\ UNCHANGED <<task, running, printerPc, vqueue, vtask, vrunning, speakPc,
                   speakThread, synth, playing, escpos, starts, dispatched>>

\* PrinterInterface.text: one PrinterText per line of the content
InterfaceText(content, bold) ==
    LET lines == Split(content) IN
    [i \in 1..Len(lines) |-> PrinterText(lines[i], bold)]

\* PrinterInterface.text(content, index, bold), with the queue() it calls
Text(content, index, bold) == Queue(InterfaceText(content, bold), index)

\* PrinterInterface.start(), with the VoiceEngine.start() it calls
Start ==
    /\ starts < MaxStarts
    /\ (nextId - 1) + 2 * (starts + 1) <= MaxCalls
    /\ starts' = starts + 1
    /\ task' = starts + 1
    /\ printerPc' = [printerPc EXCEPT ![starts + 1] = "new"]
    /\ vtask' = starts + 1
    /\ speakPc' = [speakPc EXCEPT ![starts + 1] = "new"]
    /\ vrunning' = TRUE
    /\ running' = TRUE
    /\ lastOp' = Op("start", FALSE)
    /\ lastRun' = NoRun
    /\ UNCHANGED <<queue, vqueue, speakThread, synth, playing, escpos, nextId, jobs,
                   appendOnly, dispatched>>

\* PrinterInterface.stop(), with the VoiceEngine.stop() it calls.  Calling
\* cancel on a _task that is None raises AttributeError and ends the call.
Stop ==
    /\ running' = FALSE
    /\ IF task = 0
       THEN /\ lastOp' = Op("stop", TRUE)
            /\ UNCHANGED <<task, printerPc, vtask, vrunning, speakPc,
                           speakThread>>
       ELSE /\ printerPc' = Cancel(printerPc, task)
            /\ vrunning' = FALSE
            /\ IF vtask = 0
               THEN /\ lastOp' = Op("stop", TRUE)
                    /\ UNCHANGED <<task, vtask, speakPc, speakThread>>
               ELSE /\ speakPc' = Cancel(speakPc, vtask)
                    /\ speakThread' = [speakThread EXCEPT ![vtask] = 0]
                    /\ vtask' = 0
                    /\ task' = 0
                    /\ lastOp' = Op("stop", FALSE)
    /\ lastRun' = NoRun
    /\ UNCHANGED <<queue, vqueue, synth, playing, escpos, starts, nextId, jobs,
                   appendOnly, dispatched>>

\* a loop that returns after one iteration
AtWhileExit(flag) == "done"

\* the position of a loop task when it evaluates its while condition
AtWhile(flag) == IF flag THEN "sleeping" ELSE "done"

\* __printer_loop: the first run of the task, up to its first sleep
PrinterLoopEnter(t) ==
    /\ printerPc[t] = "new"
    /\ printerPc' = [printerPc EXCEPT ![t] = AtWhile(running)]
    /\ lastOp' = NoOp
    /\ lastRun' = NoRun
    /\ UNCHANGED <<queue, task, running, vqueue, vtask, vrunning, speakPc,
                   speakThread, synth, playing, escpos, starts, nextId, jobs,
                   appendOnly, dispatched>>

\* the formatting configurations and the collection contents of the model
Configs == {[DefaultConfig EXCEPT !.flip = f] : f \in BOOLEAN}
Contents == Collections \cup {InterfaceText(c, FALSE) : c \in TextContents}

\* what `await self.__print_content(first_in)` does under the try/except of
\* __printer_loop, for every configuration, content and backend fault
Dispatches ==
    [cfg \in Configs |-> [content \in Contents |->
        [fault \in FaultsOf(cfg, content) |->
            PrinterLoopCatch(PrintContent(cfg, content, fault))]]]

\* __printer_loop: one iteration, from the end of a sleep to the next sleep
PrinterLoopTick(t) ==
    /\ printerPc[t] = "sleeping"
    /\ IF Len(queue) < 1
       THEN /\ printerPc' = [printerPc EXCEPT ![t] = AtWhile(running)]
            /\ lastRun' = NoRun
            /\ UNCHANGED <<queue, vqueue, playing, dispatched>>
       ELSE \E first_in \in {Pop0(queue).item} :
            /\ queue' = Pop0(queue).rest
            /\ dispatched' = Append(dispatched, first_in.id)
            /\ \E fault \in DOMAIN Dispatches[escpos][first_in.content] :
               \E r \in {Dispatches[escpos][first_in.content][fault]} :
                /\ vqueue' = SpeakAll(vqueue, r.spoke)
                /\ playing' = Spawn(playing, r.played)
                /\ lastRun' = [content |-> first_in.content, id |-> first_in.id,
                               by |-> t] @@ r
                /\ printerPc' = [printerPc EXCEPT ![t] =
                       IF r.raised # "" THEN "failed" ELSE AtWhile(running)]
    /\ lastOp' = NoOp
    /\ UNCHANGED <<task, running, vtask, vrunning, speakPc, speakThread, synth,
                   escpos, starts, nextId, jobs, appendOnly>>

\* a speak loop that never finds its thread alive
NeverAlive(thread) == FALSE

\* Thread.is_alive of the thread a speak loop started last (0: none yet)
IsAlive(thread) == thread # 0 /\ synth[thread].status = "running"

\* __speak_loop: the first run of the task, up to its first sleep
SpeakLoopEnter(t) ==
    /\ speakPc[t] = "new"
    /\ speakPc' = [speakPc EXCEPT ![t] = AtWhile(vrunning)]
    /\ speakThread' = [speakThread EXCEPT ![t] = 0]
    /\ lastOp' = NoOp
    /\ lastRun' = NoRun
    /\ UNCHANGED <<queue, task, running, printerPc, vqueue, vtask, vrunning,
                   synth, playing, escpos, starts, nextId, jobs, appendOnly,
                   dispatched>>

\* __speak_loop: one iteration, from the end of a sleep to the next sleep;
\* the local variable `thread` goes away with a task that ends
SpeakLoopTick(t) ==
    /\ speakPc[t] = "sleeping"
    /\ IF Len(vqueue) < 1 \/ IsAlive(speakThread[t])
       THEN /\ speakThread' = [speakThread EXCEPT ![t] =
                                   IF vrunning THEN @ ELSE 0]
            /\ UNCHANGED <<vqueue, synth>>
       ELSE /\ synth' = Append(synth, [text |-> Pop0(vqueue).item,
                                       status |-> "running"])
            /\ vqueue' = Pop0(vqueue).rest
            /\ speakThread' = [speakThread EXCEPT ![t] =
                                   IF vrunning THEN Len(synth) + 1 ELSE 0]
    /\ speakPc' = [speakPc EXCEPT ![t] = AtWhile(vrunning)]
    /\ lastOp' = NoOp
    /\ lastRun' = NoRun
    /\ UNCHANGED <<queue, task, running, printerPc, vtask, vrunning, playing,
                   escpos, starts, nextId, jobs, appendOnly, dispatched>>

\* a synthesis whose failure leaves its thread alive
SpeakEndHang(th, ok) ==
    /\ th \in 1..Len(synth)
    /\ synth[th].status = "running"
    /\ synth' = [synth EXCEPT ![th].status = IF ok THEN "ended" ELSE "running"]
    /\ lastOp' = Op("_speak", ~ok)
    /\ lastRun' = NoRun
    /\ UNCHANGED <<queue, task, running, printerPc, vqueue, vtask, vrunning,
                   speakPc, speakThread, playing, escpos, starts, nextId, jobs,
                   appendOnly, dispatched>>

\* _speak returns or raises in its thread: the thread ends either way
SpeakEnd(th, ok) ==
    /\ th \in 1..Len(synth)
    /\ synth[th].status = "running"
    /\ synth' = [synth EXCEPT ![th].status = "ended"]
    /\ lastOp' = Op("_speak", ~ok)
    /\ lastRun' = NoRun
    /\ UNCHANGED <<queue, task, running, printerPc, vqueue, vtask, vrunning,
                   speakPc, speakThread, playing, escpos, starts, nextId, jobs,
                   appendOnly, dispatched>>

\* playsound returns in its executor thread
PlayEnd(p) ==
    /\ playing[p] > 0
    /\ playing' = [playing EXCEPT ![p] = @ - 1]
    /\ lastOp' = NoOp
    /\ lastRun' = NoRun
    /\ UNCHANGED <<queue, task, running, printerPc, vqueue, vtask, vrunning,
                   speakPc, speakThread, synth, escpos, starts, nextId, jobs,
                   appendOnly, dispatched>>

Next ==
    \/ \E content \in Collections, index \in Indices : Queue(content, index)
    \/ \E content \in TextContents, index \in Indices :
           Text(content, index, FALSE)
    \/ Start
    \/ Stop
    \/ \E t \in Tasks : PrinterLoopEnter(t)
    \/ \E t \in Tasks : PrinterLoopTick(t)
    \/ \E t \in Tasks : SpeakLoopEnter(t)
    \/ \E t \in Tasks : SpeakLoopTick(t)
    \/ \E th \in 1..Len(synth), ok \in BOOLEAN : SpeakEnd(th, ok)
    \/ \E p \in Paths : PlayEnd(p)

Spec == Init /\ [][Next]_vars

(***************************************************************************)
(* Properties                                                              *)
(***************************************************************************)
\* the jobs of the collection dispatched by the step just taken
RunJobs == 1..Len(lastRun.content)

IsInvalidImage(item) == item.type = "PrinterImage" /\ ~item.bitmap.isImage
IsMissingSound(item) == item.type = "SoundFile" /\ ~PathExists(item.file_path)
IsForeign(item) ==
    item.type \notin {"PrinterImage", "PrinterText", "SoundFile", "VoiceText"}

\* the jobs after job i are dispatched: one of them is left out only if a
\* job between i and it raised out of the dispatch
LaterJobsRun(i) ==
    \A j \in RunJobs :
        (j > i /\ lastRun.status[j] = "notrun") =>
            \E k \in (i + 1)..(j - 1) : lastRun.status[k] = "raised"

\* C1: while every enqueue so far was an append (negative index), the
\* collections are popped, and so dispatched to the backend, in exactly the
\* order of their enqueueing: the k-th pop takes the k-th enqueued collection,
\* and the queue holds the remaining ones in the order of their enqueueing.
C1_AppendFifo ==
    appendOnly =>
        /\ \A k \in 1..Len(dispatched) : dispatched[k] = k
        /\ \A k \in 1..Len(queue) : queue[k].id = Len(dispatched) + k
        /\ lastRun.id # 0 => lastRun.id = Len(dispatched)

C1_Witness ==
    /\ appendOnly
    /\ dispatched = <<1, 2, 3>>
    /\ lastRun.id = 3

\* C2: a call queue(collection, index) with 0 <= index <= len(queue) puts
\* the collection at position index (counted from 0), makes the queue one
\* longer and keeps every queued collection, in the same relative order.
C2_InsertAtIndex ==
    [][lastOp'.op = "queue" =>
          \A content \in Collections, index \in 0..MaxIndex :
              (index <= Len(queue) /\ Queue(content, index)) =>
                  /\ Len(queue') = Len(queue) + 1
                  /\ queue'[index + 1] = [content |-> content, id |-> nextId]
                  /\ \A k \in 1..index : queue'[k] = queue[k]
                  /\ \A k \in (index + 1)..Len(queue) :
                         queue'[k + 1] = queue[k]]_vars

\* from the queue [A, C], queue(B, 1) was called, and the dispatch order
\* was A, B, C
C2_Witness ==
    /\ ~appendOnly
    /\ dispatched = <<1, 3, 2>>

\* C3: while start() has been called at most once, at most one synthesis
\* thread is running.
Running == {th \in 1..Len(synth) : synth[th].status = "running"}

C3_OneSynthesis == starts <= 1 => Cardinality(Running) <= 1

\* the second utterance is being synthesised, after the first one ended
C3_Witness ==
    /\ starts = 1
    /\ Len(synth) = 2
    /\ synth[1].status = "ended"
    /\ synth[2].status = "running"

\* C4: a job of unrecognized variant is skipped and every job after it in
\* the same collection is still dispatched (none is left out because of it).
C4_InvalidJobSkipped ==
    \A i \in RunJobs :
        (IsForeign(lastRun.content[i]) /\ lastRun.status[i] # "notrun") =>
            LaterJobsRun(i)

\* C5: an error raised while a collection is dispatched does not end the
\* dispatch loop: no __printer_loop task ends with an exception, and the
\* task that made a dispatch goes on to its while test, to sleep again when
\* the interface is running.
C5_LoopSurvivesErrors ==
    /\ \A t \in Tasks : printerPc[t] # "failed"
    /\ lastRun.id # 0 =>
          /\ lastRun.raised = ""
          /\ printerPc[lastRun.by] = AtWhile(running)

\* a dispatch has raised into the loop, the loop sleeps for its next
\* iteration and a collection is queued behind the failing one
C5_Witness ==
    /\ lastRun.id # 0
    /\ \E i \in RunJobs : lastRun.status[i] = "raised"
    /\ running
    /\ printerPc[lastRun.by] = "sleeping"
    /\ queue # <<>>

\* C6: a stop() called right after a stop() does not raise, and leaves the
\* scheduler stopped.
C6_StopTwice ==
    [][(lastOp.op = "stop" /\ lastOp'.op = "stop") =>
          (~lastOp'.raised /\ ~running')]_vars

\* C7: an exception of the backend in the dispatch of a Text or Image job
\* aborts that job only: every later job of the collection is dispatched
\* (none is left out because of it).
C7_BackendErrorAbortsOneJob ==
    \A i \in RunJobs :
        (/\ lastRun.content[i].type \in {"PrinterText", "PrinterImage"}
         /\ lastRun.error[i] = "BackendError") =>
            LaterJobsRun(i)

\* C8: no playback unit is ever created for a path that does not exist.
C8_NoPlaybackOfMissingFile ==
    /\ \A p \in Paths : ~PathExists(p) => playing[p] = 0
    /\ \A k \in 1..Len(lastRun.played) : PathExists(lastRun.played[k])

\* a Sound job with a missing path has been dispatched
C8_Witness ==
    \E i \in RunJobs :
        IsMissingSound(lastRun.content[i]) /\ lastRun.status[i] # "notrun"

\* C9: a Sound job whose path does not exist is skipped on its own: the
\* jobs after it in the collection are still dispatched (none is left out
\* because of it).
C9_MissingSoundSkipped ==
    \A i \in RunJobs :
        (IsMissingSound(lastRun.content[i]) /\ lastRun.status[i] # "notrun") =>
            LaterJobsRun(i)

\* C10: an Image job without a valid bitmap makes no backend call at all
\* (no set, no text, no image); its InvalidImageObject error is caught and
\* logged inside the dispatch, and the dispatch goes on with the jobs after
\* it: a later job is left out only if a job after the image raised.
C10_InvalidImageSkipped ==
    \A i \in RunJobs :
        (IsInvalidImage(lastRun.content[i]) /\ lastRun.status[i] # "notrun") =>
            /\ lastRun.calls[i] = <<>>
            /\ lastRun.status[i] = "skipped"
            /\ lastRun.error[i] = "InvalidImageObject"
            /\ \E k \in 1..Len(lastRun.logged) :
                   lastRun.logged[k] = "InvalidImageObject"
            /\ LaterJobsRun(i)

\* an invalid image was the first job, and the last job of the collection
\* has printed
C10_Witness ==
    /\ Len(lastRun.content) > 1
    /\ IsInvalidImage(lastRun.content[1])
    /\ lastRun.status[Len(lastRun.content)] = "ok"
    /\ lastRun.calls[Len(lastRun.content)] # <<>>

(***************************************************************************)
(* Text lines and image orientation                                        *)
(***************************************************************************)
\* the number of line breaks of a string
Breaks(s) == Cardinality({k \in 1..Len(s) : s[k] = NL})

RECURSIVE JoinLines(_)
\* the lines, with a line break between two consecutive ones
JoinLines(lines) ==
    IF Len(lines) = 0 THEN <<>>
    ELSE IF Len(lines) = 1 THEN lines[1]
    ELSE lines[1] \o <<NL>> \o JoinLines(Tail(lines))

IsTextCall(c) == c.op = "text"

\* the lines printed by backend text calls: each call is handed one line
\* with the line break that ends it
PrintedLines(calls) ==
    LET t == SelectSeq(calls, IsTextCall) IN
    [k \in 1..Len(t) |-> SubSeq(t[k].arg, 1, Len(t[k].arg) - 1)]

EndsLines(calls) ==
    \A k \in 1..Len(calls) :
        calls[k].op = "text" =>
            /\ Len(calls[k].arg) >= 1
            /\ calls[k].arg[Len(calls[k].arg)] = NL
            /\ Breaks(calls[k].arg) = 1

\* the dispatch of the step just taken printed every Text job that ran
\* without error line by line
TextPrintedByLine(run) ==
    \A i \in 1..Len(run.content) :
        (run.content[i].type = "PrinterText" /\ run.status[i] = "ok") =>
            /\ EndsLines(run.calls[i])
            /\ Len(PrintedLines(run.calls[i])) = Breaks(run.content[i].content) + 1
            /\ JoinLines(PrintedLines(run.calls[i])) = run.content[i].content

\* the queue entry with identity id
Queued(q, id) == CHOOSE k \in 1..Len(q) : q[k].id = id

\* C11: text content with k line breaks makes exactly k + 1 backend text
\* calls, one per line and in the order of the lines: a Text job dispatched
\* by the engine prints its lines so, and text(content, index) queues one
\* Text job per line, in order, so that its dispatch prints them the same.
C11_OneCallPerLine ==
    [][/\ lastRun'.id # 0 => TextPrintedByLine(lastRun')
       /\ lastOp'.op = "queue" =>
             \A content \in TextContents, index \in Indices :
                 Text(content, index, FALSE) =>
                    LET new == queue'[Queued(queue', nextId)].content IN
                    /\ Len(new) = Breaks(content) + 1
                    /\ \A j \in 1..Len(new) :
                           /\ new[j].type = "PrinterText"
                           /\ Breaks(new[j].content) = 0
                    /\ JoinLines([j \in 1..Len(new) |-> new[j].content]) = content
      ]_vars

\* the collection queued by text("p\nq") was dispatched: two text calls,
\* for "p" and then for "q"
C11_Witness ==
    /\ lastRun.id # 0
    /\ lastRun.content = <<PrinterText(<<"p">>, FALSE), PrinterText(<<"q">>, FALSE)>>
    /\ PrintedLines(lastRun.calls[1] \o lastRun.calls[2]) = << <<"p">>, <<"q">> >>

\* the bitmap turned by 180 degrees: mirrored left-right and top-bottom
Rot180(img) ==
    LET h == Len(img.pixels) IN
    [img EXCEPT !.pixels =
        [r \in 1..h |->
            [c \in 1..Len(img.pixels[h + 1 - r]) |->
                img.pixels[h + 1 - r][Len(img.pixels[h + 1 - r]) + 1 - c]]]]

ImageCallsOf(calls) == {k \in 1..Len(calls) : calls[k].op = "image"}

\* C12: the bitmap handed to the backend's image call is the job's bitmap
\* turned by 180 degrees when the configuration's flip is set, and the job's
\* bitmap itself when it is not; an Image job that ran without error made
\* exactly one image call.
C12_FlipRotates ==
    \A i \in RunJobs :
        lastRun.content[i].type = "PrinterImage" =>
            /\ \A k \in ImageCallsOf(lastRun.calls[i]) :
                   lastRun.calls[i][k].arg =
                       IF escpos.flip THEN Rot180(lastRun.content[i].bitmap)
                       ELSE lastRun.content[i].bitmap
            /\ lastRun.status[i] = "ok" =>
                   Cardinality(ImageCallsOf(lastRun.calls[i])) = 1

\* with flip set, an image was handed to the backend, turned
C12_Witness ==
    /\ escpos.flip
    /\ \E i \in RunJobs :
          /\ lastRun.content[i].type = "PrinterImage"
          /\ lastRun.status[i] = "ok"
          /\ \E k \in ImageCallsOf(lastRun.calls[i]) :
                 /\ lastRun.calls[i][k].ok
                 /\ lastRun.calls[i][k].arg.pixels = <<<<4, 3>>, <<2, 1>>>>

(***************************************************************************)
(* Scheduler life cycle                                                    *)
(***************************************************************************)
Live == {"new", "sleeping"}
LivePrinterLoops == {t \in Tasks : printerPc[t] \in Live}
LiveSpeakLoops == {t \in Tasks : speakPc[t] \in Live}

\* C13: start() on a running scheduler does not start it a second time: at
\* most one dispatch loop and at most one speak loop is live, so the queue
\* and the voice queue have one consumer each.
C13_NoDoubleStart ==
    /\ Cardinality(LivePrinterLoops) <= 1
    /\ Cardinality(LiveSpeakLoops) <= 1

\* C14: the scheduler is Stopped at first; it becomes Running by start()
\* and Stopped by stop() and by nothing else; while Running the dispatch
\* loop created by the last start() is live; a dispatch made by that loop
\* after a stop() and a start() takes the head of the queue.
C14_StoppedRunning ==
    /\ ~running
    /\ [][/\ lastOp'.op = "start" => running'
          /\ lastOp'.op = "stop" => ~running'
          /\ lastOp'.op \notin {"start", "stop"} => running' = running
          /\ running' <=> task' # 0
          /\ running' => printerPc'[task'] \in Live
          /\ (lastRun'.id # 0 /\ lastRun'.by = task) =>
                 /\ running
                 /\ lastRun'.id = Head(queue).id
                 /\ queue' = Tail(queue)
         ]_vars

\* after start(), stop(), start() the second loop dispatched a collection
C14_Witness ==
    /\ running
    /\ task = 2
    /\ printerPc[1] = "done"
    /\ lastRun.id # 0
    /\ lastRun.by = 2

\* C15: while the scheduler is Stopped, enqueued collections only
\* accumulate: a collection is popped and dispatched only by a step of a
\* Running scheduler, and it is the head of the queue.
C15_StoppedOnlyAccumulates ==
    [][lastRun'.id # 0 =>
          /\ running
          /\ lastRun'.id = Head(queue).id]_vars

\* C16: in a scheduler started once and then stopped, no step pops a
\* collection from the queue or an utterance from the voice queue.
C16_NoPopAfterStop ==
    [][(starts = 1 /\ ~running) =>
          /\ dispatched' = dispatched
          /\ Len(queue') >= Len(queue)
          /\ Len(synth') = Len(synth)
          /\ Len(vqueue') >= Len(vqueue)]_vars

\* stop() has returned while a collection and an utterance were queued
C16_Witness ==
    /\ starts = 1
    /\ lastOp = Op("stop", FALSE)
    /\ queue # <<>>
    /\ vqueue # <<>>
    /\ printerPc[1] = "done"
    /\ speakPc[1] = "done"

\* C17: a stop() that returns leaves no item in the queue and none in the
\* voice queue: what was queued is discarded.
C17_StopDiscards ==
    lastOp = Op("stop", FALSE) => (queue = <<>> /\ vqueue = <<>>)

\* C18: utterances are synthesised in the order of the voice queue, one
\* after the other: a synthesis that starts is that of the head of the
\* voice queue, and every synthesis started before it has ended.  Stated
\* for the steps in which the speak loop of the last start() is the only
\* live one, the single consumer of the voice queue.
C18_SpeakFifoNoOverlap ==
    [][(Len(synth') > Len(synth) /\ LiveSpeakLoops = {vtask}) =>
          /\ vqueue # <<>>
          /\ synth'[Len(synth')].text = Head(vqueue)
          /\ vqueue' = Tail(vqueue)
          /\ \A th \in 1..Len(synth) : synth[th].status = "ended"]_vars

\* C19: an iteration of the dispatch loop pops no collection from an empty
\* queue, and from a queue that is not empty exactly one: the collection at
\* position 0, which is the one it dispatches.  A step that dispatches is
\* an iteration of a sleeping loop and takes exactly the head; a step that
\* dispatches nothing pops nothing, and if it is a loop iteration the queue
\* was empty.
C19_TickPopsHead ==
    [][/\ lastRun'.id # 0 =>
              /\ printerPc[lastRun'.by] = "sleeping"
              /\ queue # <<>>
              /\ queue' = Tail(queue)
              /\ dispatched' = Append(dispatched, Head(queue).id)
              /\ lastRun'.id = Head(queue).id
              /\ lastRun'.content = Head(queue).content
       /\ lastRun'.id = 0 =>
              /\ dispatched' = dispatched
              /\ Len(queue') >= Len(queue)
              /\ \A t \in Tasks :
                     (printerPc[t] = "sleeping" /\ PrinterLoopTick(t)) =>
                         (queue = <<>> /\ queue' = queue)
      ]_vars

\* the head was popped from a queue of two collections or more that was
\* not built by appends only
C19_Witness ==
    /\ lastRun.id # 0
    /\ queue # <<>>
    /\ ~appendOnly
    /\ lastRun.id > queue[1].id

\* the jobs of a dispatch that were reached, that is, routed to an engine
Reached(run) == {i \in 1..Len(run.content) : run.status[i] # "notrun"}

RECURSIVE Utterances(_, _)
\* the utterances of the Voice jobs among the first n jobs of the dispatch
\* that were reached, in the order of the jobs
Utterances(run, n) ==
    IF n = 0 THEN <<>>
    ELSE Utterances(run, n - 1) \o
         (IF run.content[n].type = "VoiceText" /\ n \in Reached(run)
          THEN <<ReplaceNL(run.content[n].content)>> ELSE <<>>)

RECURSIVE Playbacks(_, _)
\* the paths of the Sound jobs among the first n jobs that ran without error
Playbacks(run, n) ==
    IF n = 0 THEN <<>>
    ELSE Playbacks(run, n - 1) \o
         (IF run.content[n].type = "SoundFile" /\ run.status[n] = "ok"
          THEN <<run.content[n].file_path>> ELSE <<>>)

\* C20: collections do not overlap in dispatch.  A step dispatches at most
\* one collection, from its first job to the job that ends the dispatch,
\* and leaves no loop in the middle of a collection; every backend call,
\* utterance and playback of the step belongs to a job of that collection;
\* the jobs are routed in their order in the collection.
C20_NoOverlapInOrder ==
    [][/\ Len(dispatched') <= Len(dispatched) + 1
       /\ \A t \in Tasks : printerPc'[t] \in {"none", "new", "sleeping", "done"}
       /\ lastRun'.id = 0 =>
              /\ dispatched' = dispatched
              /\ Len(vqueue') <= Len(vqueue)
              /\ \A p \in Paths : playing'[p] <= playing[p]
       /\ lastRun'.id # 0 =>
              /\ dispatched' = Append(dispatched, lastRun'.id)
              /\ \A i, j \in 1..Len(lastRun'.content) :
                     (i < j /\ j \in Reached(lastRun')) =>
                         lastRun'.status[i] \in {"ok", "skipped"}
              /\ \A i \in 1..Len(lastRun'.content) :
                     \A k \in 1..Len(lastRun'.calls[i]) :
                         \/ lastRun'.content[i].type = "PrinterText"
                            /\ lastRun'.calls[i][k].op \in {"set", "text"}
                         \/ lastRun'.content[i].type = "PrinterImage"
                            /\ lastRun'.content[i].bitmap.isImage
              /\ lastRun'.spoke = Utterances(lastRun', Len(lastRun'.content))
              /\ vqueue' = vqueue \o lastRun'.spoke
              /\ lastRun'.played = Playbacks(lastRun', Len(lastRun'.content))
              /\ playing' = Spawn(playing, lastRun'.played)
      ]_vars

\* a collection of a Sound job, a Voice job and a Sound job was dispatched
\* while another collection waited in the queue
C20_Witness ==
    /\ lastRun.id # 0
    /\ Len(lastRun.spoke) = 1
    /\ Len(lastRun.played) = 2
    /\ queue # <<>>

(***************************************************************************)
(* Voice and sound hand-off                                                *)
(***************************************************************************)
\* the Voice jobs of a dispatch that were reached
VoiceJobsOf(run) ==
    {i \in Reached(run) : run.content[i].type = "VoiceText"}

\* C21: the dispatch of a Voice job appends its utterance, and nothing
\* else, to the end of the voice queue and goes on with the next job of the
\* collection without starting, ending or waiting for a synthesis; the
\* dispatch queue loses the popped collection and is not changed otherwise.
C21_VoiceHandOff ==
    [][lastRun'.id # 0 =>
          /\ Len(vqueue') = Len(vqueue) + Cardinality(VoiceJobsOf(lastRun'))
          /\ SubSeq(vqueue', 1, Len(vqueue)) = vqueue
          /\ \A i \in VoiceJobsOf(lastRun') :
                 /\ lastRun'.status[i] = "ok"
                 /\ vqueue'[Len(vqueue)
                            + Cardinality({j \in VoiceJobsOf(lastRun') : j <= i})]
                        = ReplaceNL(lastRun'.content[i].content)
                 /\ i < Len(lastRun'.content) => i + 1 \in Reached(lastRun')
          /\ synth' = synth
          /\ queue' = Tail(queue)]_vars

\* a Voice job and the job after it were dispatched while a synthesis was
\* in flight and an utterance was waiting
C21_Witness ==
    /\ lastRun.id # 0
    /\ lastRun.content[1].type = "VoiceText"
    /\ lastRun.status[2] = "ok"
    /\ Running # {}
    /\ Len(vqueue) >= 2

\* the synthesis started last by speak loop t is still in flight
InFlight(t) ==
    speakThread[t] # 0 /\ synth[speakThread[t]].status = "running"

\* C22: an iteration of a speak loop that finds its synthesis in flight
\* starts nothing and leaves the voice queue as it is; an iteration that
\* finds none in flight and an utterance waiting pops exactly the head of
\* the voice queue and starts its synthesis in a new thread.
C22_PollTick ==
    [][\A t \in Tasks :
          (speakPc[t] = "sleeping" /\ lastOp'.op = "none" /\ lastRun'.id = 0
              /\ SpeakLoopTick(t)) =>
              IF vqueue = <<>> \/ InFlight(t)
              THEN vqueue' = vqueue /\ synth' = synth
              ELSE /\ vqueue' = Tail(vqueue)
                   /\ synth' = Append(synth, [text |-> Head(vqueue),
                                              status |-> "running"])]_vars

\* a speak loop sleeps between iterations while its synthesis is in flight
\* and an utterance waits
C22_Witness ==
    \E t \in Tasks :
        /\ speakPc[t] = "sleeping"
        /\ InFlight(t)
        /\ vqueue # <<>>
        /\ lastOp = NoOp
        /\ lastRun = NoRun

\* C23: a synthesis that fails ends its thread and nothing else: no speak
\* loop changes its position and the voice queue is as before; the
\* iteration of the speak loop that follows starts the next utterance.
C23_FailedSynthesis ==
    [][/\ lastOp' = Op("_speak", TRUE) =>
              /\ speakPc' = speakPc
              /\ speakThread' = speakThread
              /\ vqueue' = vqueue
              /\ \E th \in Running :
                     synth' = [synth EXCEPT ![th].status = "ended"]
       /\ \A t \in Tasks :
              (lastOp = Op("_speak", TRUE) /\ speakPc[t] = "sleeping"
                  /\ vqueue # <<>> /\ Running = {} /\ SpeakLoopTick(t)) =>
                  /\ vqueue' = Tail(vqueue)
                  /\ Len(synth') = Len(synth) + 1
                  /\ synth'[Len(synth')] = [text |-> Head(vqueue),
                                            status |-> "running"]
                  /\ speakPc'[t] = AtWhile(vrunning)]_vars

\* a synthesis has just failed while its speak loop sleeps and an utterance
\* waits
C23_Witness ==
    /\ lastOp = Op("_speak", TRUE)
    /\ vqueue # <<>>
    /\ Running = {}
    /\ \E t \in Tasks :
          /\ speakPc[t] = "sleeping"
          /\ speakThread[t] # 0
          /\ vrunning

\* C24: stop() leaves a synthesis in flight as it is, the thread goes on
\* and ends on its own; while the scheduler is Stopped no new synthesis is
\* started.
C24_StopKeepsSynthesis ==
    [][/\ lastOp'.op = "stop" => synth' = synth
       /\ ~running => Len(synth') = Len(synth)]_vars

\* C25: the dispatch scheduler and the voice engine are Running together
\* and Stopped together: start() leaves both flags set and a new loop task
\* for each, a stop() that returns leaves both flags cleared and the two
\* loops of the last start() ended, and after every step the flags agree.
C25_RunTogether ==
    [][/\ running' <=> vrunning'
       /\ task' = vtask'
       /\ lastOp'.op = "start" =>
              /\ running' /\ vrunning'
              /\ printerPc'[task'] = "new"
              /\ speakPc'[vtask'] = "new"
       /\ lastOp' = Op("stop", FALSE) =>
              /\ ~running' /\ ~vrunning'
              /\ printerPc'[task] \notin Live
              /\ speakPc'[vtask] \notin Live]_vars

\* the second stop() of start(), stop(), start(), stop() has returned
C25_Witness ==
    /\ lastOp = Op("stop", FALSE)
    /\ starts = 2
    /\ \A t \in 1..2 : printerPc[t] = "done" /\ speakPc[t] = "done"
    /\ ~running /\ ~vrunning

(***************************************************************************)
(* Formatting and image layout                                             *)
(***************************************************************************)
IsPrintCall(c) == c.op \in {"text", "image"}

\* the configuration a job is to be printed with
ConfigOf(item) ==
    IF item.type = "PrinterText" /\ item.bold
    THEN [escpos EXCEPT !.text_type = "B"]
    ELSE escpos

\* C26: every backend text or image call is preceded, among the calls of
\* its own job, by a set call that succeeded and carried the stored
\* configuration with the job's bold override; the call right before a
\* print call of a job is a set call or a print call of the same job.
C26_ConfigureThenAct ==
    \A i \in RunJobs :
        \A k \in 1..Len(lastRun.calls[i]) :
            IsPrintCall(lastRun.calls[i][k]) =>
                /\ k > 1
                /\ \E j \in 1..(k - 1) :
                       /\ lastRun.calls[i][j].op = "set"
                       /\ lastRun.calls[i][j].ok
                       /\ lastRun.calls[i][j].arg = ConfigOf(lastRun.content[i])
                /\ lastRun.calls[i][1].op = "set"

\* a bold Text job printed its two lines
C26_Witness ==
    \E i \in RunJobs :
        /\ lastRun.content[i].type = "PrinterText"
        /\ lastRun.content[i].bold
        /\ lastRun.status[i] = "ok"
        /\ Len(PrintedLines(lastRun.calls[i])) = 2

HasOverride(item) == item.type = "PrinterText" /\ item.bold

\* C27: the bold override lasts for its job: a dispatch leaves the stored
\* configuration as it is, and every set call of a Text or Image job
\* without override that comes after a bold Text job carries the stored
\* configuration, not bold.
C27_BoldScoped ==
    [][lastRun'.id # 0 =>
          /\ escpos' = escpos
          /\ \A i, j \in 1..Len(lastRun'.content) :
                 (/\ i < j
                  /\ HasOverride(lastRun'.content[i])
                  /\ i \in Reached(lastRun')
                  /\ lastRun'.content[j].type \in {"PrinterText", "PrinterImage"}
                  /\ ~HasOverride(lastRun'.content[j])) =>
                     \A k \in 1..Len(lastRun'.calls[j]) :
                         lastRun'.calls[j][k].op = "set" =>
                             /\ lastRun'.calls[j][k].arg = escpos
                             /\ lastRun'.calls[j][k].arg.text_type # "B"]_vars

\* an Image job was printed after a bold Text job of the same collection
C27_Witness ==
    \E i, j \in RunJobs :
        /\ i < j
        /\ HasOverride(lastRun.content[i])
        /\ lastRun.status[i] = "ok"
        /\ lastRun.content[j].type = "PrinterImage"
        /\ lastRun.status[j] = "ok"
        /\ lastRun.calls[j] # <<>>

\* the text and image calls among the calls, in order, without the set
\* calls
PrintCalls(calls) ==
    LET p == SelectSeq(calls, IsPrintCall) IN
    [k \in 1..Len(p) |-> [op |-> p[k].op, arg |-> p[k].arg]]

BlankLine == [op |-> "text", arg |-> <<NL>>]

\* C28: a valid Image job that ran without error printed, with padding, a
\* blank line, the image and two blank lines, and without padding the
\* image and one blank line; the print call after an image call is always
\* a blank line.
C28_ImageLayout ==
    \A i \in RunJobs :
        lastRun.content[i].type = "PrinterImage" =>
            LET p == PrintCalls(lastRun.calls[i])
                img == [op |-> "image",
                        arg |-> IF escpos.flip
                                THEN Rot180(lastRun.content[i].bitmap)
                                ELSE lastRun.content[i].bitmap]
            IN  /\ lastRun.status[i] = "ok" =>
                       p = IF lastRun.content[i].padding
                           THEN <<BlankLine, img, BlankLine, BlankLine>>
                           ELSE <<img, BlankLine>>
                /\ \A k \in 1..(Len(p) - 1) :
                       p[k].op = "image" => p[k + 1] = BlankLine

\* an image with padding was printed
C28_Witness ==
    \E i \in RunJobs :
        /\ lastRun.content[i].type = "PrinterImage"
        /\ lastRun.content[i].padding
        /\ lastRun.status[i] = "ok"
        /\ Len(PrintCalls(lastRun.calls[i])) = 4

\* the Sound jobs of a dispatch whose file exists and that were reached
SoundJobsOf(run) ==
    {i \in Reached(run) : /\ run.content[i].type = "SoundFile"
                           /\ PathExists(run.content[i].file_path)}

\* C29: the dispatch of a Sound job whose file exists leaves one more
\* playback unit running for its path and goes on with the next job of the
\* collection; no playback ends in the step of the dispatch.
C29_SoundHandOff ==
    [][lastRun'.id # 0 =>
          /\ \A i \in SoundJobsOf(lastRun') :
                 /\ lastRun'.status[i] = "ok"
                 /\ i < Len(lastRun'.content) => i + 1 \in Reached(lastRun')
          /\ \A p \in Paths :
                 playing'[p] = playing[p] + Cardinality(
                     {i \in SoundJobsOf(lastRun') :
                         lastRun'.content[i].file_path = p})]_vars

\* a sound was handed to a playback unit that is running, and the Voice
\* job after it was dispatched
C29_Witness ==
    /\ lastRun.id # 0
    /\ \E i \in SoundJobsOf(lastRun) :
          /\ i < Len(lastRun.content)
          /\ lastRun.status[i + 1] = "ok"
          /\ playing[lastRun.content[i].file_path] >= 1

\* C30: across stop() and start() there is still one synthesis at a time:
\* the speak loop of a later start(), the only live one, starts a synthesis
\* only when no synthesis is in flight.
C30_OneSynthesisAcrossRestart ==
    [][(Len(synth') > Len(synth) /\ starts >= 2 /\ LiveSpeakLoops = {vtask}) =>
          Running = {}]_vars

(***************************************************************************)
(* Orphan loops, progress, single dispatch                                 *)
(***************************************************************************)
\* C31: whatever the number of start() calls before it, after stop() no
\* step pops a collection from the queue or an utterance from the voice
\* queue until the next start().
C31_NoPopAfterStopEver ==
    [][(starts >= 1 /\ ~running) =>
          /\ dispatched' = dispatched
          /\ Len(queue') >= Len(queue)
          /\ Len(synth') = Len(synth)
          /\ Len(vqueue') >= Len(vqueue)]_vars

\* the event loop runs every task that is ready: a loop task that was
\* created runs to its first sleep, and a sleep that ended is followed by
\* the iteration
PrinterFair ==
    \A t \in Tasks : WF_vars(PrinterLoopEnter(t)) /\ WF_vars(PrinterLoopTick(t))

\* the calls of queue() and start() so far, start() counted twice
LiveBudget == (nextId - 1) + 2 * starts <= MaxLiveCalls

\* Next with the smaller budget of calls
LiveNext ==
    \/ \E content \in Collections, index \in Indices :
           Queue(content, index) /\ LiveBudget'
    \/ \E content \in TextContents, index \in Indices :
           Text(content, index, FALSE) /\ LiveBudget'
    \/ Start /\ LiveBudget'
    \/ Stop
    \/ \E t \in Tasks : PrinterLoopEnter(t)
    \/ \E t \in Tasks : PrinterLoopTick(t)
    \/ \E t \in Tasks : SpeakLoopEnter(t)
    \/ \E t \in Tasks : SpeakLoopTick(t)
    \/ \E th \in 1..Len(synth), ok \in BOOLEAN : SpeakEnd(th, ok)
    \/ \E p \in Paths : PlayEnd(p)

PrinterSpec == Init /\ [][LiveNext]_vars /\ PrinterFair

InQueue(id) == \E k \in 1..Len(queue) : queue[k].id = id
WasDispatched(id) == \E k \in 1..Len(dispatched) : dispatched[k] = id

\* C32: a collection that is in the queue of a Running scheduler, all
\* enqueues having been appends, is popped and dispatched at some later
\* time unless the scheduler is stopped or a collection is inserted at an
\* index.
C32_EveryCollectionDispatched ==
    \A id \in 1..MaxEnqueues :
        (InQueue(id) /\ running /\ appendOnly)
            ~> (WasDispatched(id) \/ ~running \/ ~appendOnly)

\* the second of two appended collections, of five jobs together, was
\* dispatched by a scheduler that was started once and is Running
C32_Witness ==
    /\ appendOnly
    /\ running
    /\ starts = 1
    /\ dispatched = <<1, 2>>
    /\ queue = <<>>
    /\ lastRun.id = 2
    /\ jobs = 5

\* the speak loop tasks are run like every task, and every synthesis thread
\* ends, by return or by exception
VoiceFair ==
    /\ \A t \in Tasks : WF_vars(SpeakLoopEnter(t)) /\ WF_vars(SpeakLoopTick(t))
    /\ \A th \in 1..MaxJobs : WF_vars(\E ok \in BOOLEAN : SpeakEnd(th, ok))

VoiceSpec == Init /\ [][LiveNext]_vars /\ VoiceFair

\* C33: the utterances are numbered in the order of their speak() calls;
\* utterance k has been appended when the started and the waiting ones are
\* k or more, and its synthesis has been started when the started ones are
\* k or more.  An utterance appended to a Running voice engine is started
\* at some later time unless the engine is stopped.
C33_EveryUtteranceStarted ==
    \A k \in 1..MaxJobs :
        (vrunning /\ Len(synth) + Len(vqueue) >= k)
            ~> (Len(synth) >= k \/ ~vrunning)

\* the third utterance was started by a voice engine that was started once
\* and is Running, and none is waiting
C33_Witness ==
    /\ vrunning
    /\ starts = 1
    /\ Len(synth) = 3
    /\ vqueue = <<>>
    /\ synth[3].status = "running"

NoDuplicates(seq) ==
    \A i, j \in 1..Len(seq) : seq[i] = seq[j] => i = j

\* C34: nothing is dispatched twice.  No collection identity occurs twice
\* among the dispatched ones, none that was dispatched is still queued, and
\* none is queued twice; a step that hands an utterance to a synthesis
\* thread hands over one, the head of the voice queue, and removes it, and
\* the utterances started and waiting are those of before and the ones
\* spoken in the step.
C34_NothingTwice ==
    [][/\ NoDuplicates(dispatched')
       /\ NoDuplicates([k \in 1..Len(queue') |-> queue'[k].id])
       /\ \A k \in 1..Len(queue') : ~\E j \in 1..Len(dispatched') :
              dispatched'[j] = queue'[k].id
       /\ Len(synth') + Len(vqueue')
              = Len(synth) + Len(vqueue) + Len(lastRun'.spoke)
       /\ Len(synth') > Len(synth) =>
              /\ Len(synth') = Len(synth) + 1
              /\ vqueue = <<synth'[Len(synth')].text>> \o vqueue'
      ]_vars

\* two dispatch loops and two speak loops are live, a collection was
\* dispatched and its two utterances were handed over
C34_Witness ==
    /\ Cardinality(LivePrinterLoops) = 2
    /\ Cardinality(LiveSpeakLoops) = 2
    /\ Len(dispatched) = 1
    /\ Len(synth) = 2

\* C35: queue(collection, index) with an index past the end of the queue
\* does not raise and puts the collection at the end, as an append does:
\* the queue is the old one with the new collection after it.
C35_IndexPastEnd ==
    [][(lastOp'.op = "queue" /\ lastOp'.past) =>
          /\ ~lastOp'.raised
          /\ Len(queue') = Len(queue) + 1
          /\ queue'[Len(queue')].id = nextId
          /\ queue' = QueueInsert(queue, queue'[Len(queue')], -1)]_vars

\* queue(collection, 2) was called on a queue of one collection
C35_Witness ==
    /\ lastOp.op = "queue"
    /\ lastOp.past
    /\ Len(queue) = 2
    /\ queue[2].id = 2

\* C36: at most one playback is running.
C36_OnePlayback ==
    \A p, q \in Paths :
        /\ playing[p] <= 1
        /\ (p # q /\ playing[p] >= 1) => playing[q] = 0

====
